---- MODULE Spec2Model ----
(***************************************************************************)
(* State-machine model of cursive's EditView (src/views/edit_view.rs): a   *)
(* single-line edit buffer with a byte cursor and a horizontal scroll      *)
(* offset.  Content is a sequence of characters; every position the code   *)
(* keeps (cursor, offset, lengths) is a BYTE offset, as in the source.     *)
(***************************************************************************)
EXTENDS Integers, Sequences, FiniteSets

VARIABLES
    content,      \* self.content: the text, a sequence of characters
    cursor,       \* self.cursor: byte offset in content
    offset,       \* self.offset: first visible byte
    last_length,  \* self.last_length: viewport width of the last layout
    on_edit,      \* self.on_edit.is_some()
    on_submit,    \* self.on_submit.is_some()
    secret,       \* self.secret
    holders,      \* the clones of the view's Rc<String> held outside the view
    ret,          \* what the last call did and returned
    trip,         \* an insert(ch) whose effect a caller is about to undo
    panicked      \* the last call panicked: the program is gone

vars == <<content, cursor, offset, last_length, on_edit, on_submit, secret,
          holders, ret, trip, panicked>>

----------------------------------------------------------------------------
(* Bounds of the model. *)

\* longest content, in characters
MaxLen == 3
\* widest viewport a layout call gives
MaxWidth == 3
\* longest text given to set_content, in characters
MaxSet == 2

----------------------------------------------------------------------------
(* Text.  A text is the sequence of its UTF-8 bytes, so that the byte      *)
(* offsets of the code are indices of the sequence.  One character of each *)
(* class the code distinguishes; a byte is named by the character it       *)
(* starts, or is the continuation byte Cont:                               *)
(*   "a"  U+0061  1 byte,  1 column                                       *)
(*   "W"  U+4E2D  3 bytes, 2 columns (wide)                               *)
(*   "m"  U+0301  2 bytes, 0 columns, combining (Grapheme_Extend)          *)

Chars == {"a", "W", "m"}

Cont == "+"

\* the UTF-8 encoding of a character
utf8(ch) == CASE ch = "a" -> <<"a">>
              [] ch = "W" -> <<"W", Cont, Cont>>
              [] ch = "m" -> <<"m", Cont>>

\* char::len_utf8
len_utf8(ch) == Len(utf8(ch))

\* UnicodeWidthChar::width of the character a byte starts (0 for Cont)
char_width(b) == CASE b = "a" -> 1 [] b = "W" -> 2 [] OTHER -> 0

\* the byte starts a character that never starts a cluster after another
is_extend(b) == b = "m" \/ b = Cont

\* usize arithmetic wraps modulo this in a build without overflow checks.
\* (2^64 in the program; any value above every width of the model acts alike.)
UsizeModulus == 1073741824

\* str::len: length in bytes
len(s) == Len(s)

RECURSIVE width(_)
\* UnicodeWidthStr::width: display columns
width(s) == IF s = <<>> THEN 0 ELSE char_width(Head(s)) + width(Tail(s))

\* str::is_char_boundary
is_char_boundary(s, b) ==
    \/ b = 0
    \/ b = Len(s)
    \/ b \in 1..(Len(s) - 1) /\ s[b + 1] # Cont

\* &s[a..b] does not panic
slice_ok(s, a, b) == a <= b /\ is_char_boundary(s, a) /\ is_char_boundary(s, b)

\* &s[a..b]
slice(s, a, b) == SubSeq(s, a + 1, b)

RECURSIVE extend_run(_)
\* number of leading bytes of s that continue the cluster before them
extend_run(s) ==
    IF s # <<>> /\ is_extend(Head(s)) THEN 1 + extend_run(Tail(s)) ELSE 0

RECURSIVE graphemes(_)
\* s.graphemes(true): a cluster is one character and the Extend characters
\* that follow it
graphemes(s) ==
    IF s = <<>> THEN <<>>
    ELSE LET n == 1 + extend_run(Tail(s))
         IN  <<SubSeq(s, 1, n)>> \o graphemes(SubSeq(s, n + 1, Len(s)))

RECURSIVE bytes_of(_)
\* total byte length of a sequence of clusters
bytes_of(gs) == IF gs = <<>> THEN 0 ELSE len(Head(gs)) + bytes_of(Tail(gs))

\* a byte offset of s where a grapheme cluster of s starts, or where s ends
is_grapheme_boundary(s, b) ==
    \E k \in 0..Len(graphemes(s)) : bytes_of(SubSeq(graphemes(s), 1, k)) = b

RECURSIVE suffix_scan(_, _, _)
\* gs reversed, scanned with the running width w: the bytes of the clusters
\* taken before the width first exceeds `avail`
suffix_scan(gs, w, avail) ==
    IF gs = <<>> THEN 0
    ELSE LET g == gs[Len(gs)]
             w2 == w + width(g)
         IN  IF w2 > avail THEN 0
             ELSE len(g) + suffix_scan(SubSeq(gs, 1, Len(gs) - 1), w2, avail)

\* utils::simple_suffix_length: byte length of the longest suffix of whole
\* clusters of `text` that fits in `avail` columns
simple_suffix_length(text, avail) == suffix_scan(graphemes(text), 0, avail)

----------------------------------------------------------------------------
(* The view's methods, as functions of the fields they read.  A working    *)
(* record st = [content, cursor, offset, holders, overflow, panic] is      *)
(* threaded through the statements of a method; panic = TRUE once one      *)
(* panicked, overflow = TRUE once a usize subtraction went below zero.     *)

Panic(st) == [st EXCEPT !.panic = TRUE]

\* String::insert(idx, ch) on the text
string_insert(s, idx, ch) ==
    SubSeq(s, 1, idx) \o utf8(ch) \o SubSeq(s, idx + 1, Len(s))

\* String::drain(start..end) on the text: what is left
string_drain(s, start, end) == SubSeq(s, 1, start) \o SubSeq(s, end + 1, Len(s))

\* a clone of the view's Rc, taken when the text was s: it shares the view's
\* allocation, so it reads whatever that allocation holds
Handle(kind, s) == [kind |-> kind, taken |-> s, shared |-> TRUE]

\* the view's Rc has left the allocation of handle h: the view cannot write
\* the allocation any more, and the model stops tracking whose it is and
\* what it holds
Detached(h) == [kind |-> "detached", taken |-> << >>, shared |-> FALSE]

\* a write that does not leave the shared allocation: the handles stay on it
make_mut_in_place(hs) == hs

\* Rc::make_mut(&mut self.content), seen from the handles: when handles share
\* the allocation the view moves to a private clone before it writes, when
\* none does it writes in place
make_mut(hs) == {IF h.shared THEN Detached(h) ELSE h : h \in hs}

\* an insert that steps the cursor by one byte whatever the character
insert_one_byte(st, ch) ==
    IF ~is_char_boundary(st.content, st.cursor) THEN Panic(st)
    ELSE [st EXCEPT !.holders = make_mut(st.holders),
                    !.content = string_insert(st.content, st.cursor, ch),
                    !.cursor = st.cursor + 1]

\* EditView::insert
insert(st, ch) ==
    IF ~is_char_boundary(st.content, st.cursor) THEN Panic(st)
    ELSE LET new == string_insert(st.content, st.cursor, ch)
         IN  [st EXCEPT !.holders = make_mut(st.holders),
                        !.content = new,
                        !.cursor = st.cursor + len_utf8(ch)]

\* EditView::remove
remove(st, n) ==
    LET start == st.cursor
        end == st.cursor + n
    IN  IF ~slice_ok(st.content, start, end) THEN Panic(st)
        ELSE LET new == string_drain(st.content, start, end)
             IN  [st EXCEPT !.holders = make_mut(st.holders),
                            !.content = new]

\* self.content[..self.cursor].graphemes(true).last().unwrap().len()
prev_cluster_len(st) ==
    LET gs == graphemes(slice(st.content, 0, st.cursor)) IN len(gs[Len(gs)])

\* s.graphemes(true).next(), s not empty
first_grapheme(s) == SubSeq(s, 1, 1 + extend_run(Tail(s)))

\* self.content[self.cursor..].graphemes(true).next().unwrap().len()
next_cluster_len(st) ==
    len(first_grapheme(slice(st.content, st.cursor, len(st.content))))

\* Event::Key(Key::Left) if self.cursor > 0
key_left(st) ==
    IF ~slice_ok(st.content, 0, st.cursor) THEN Panic(st)
    ELSE [st EXCEPT !.cursor = st.cursor - prev_cluster_len(st)]

\* Event::Key(Key::Right) if self.cursor < self.content.len()
key_right(st) ==
    IF ~slice_ok(st.content, st.cursor, len(st.content)) THEN Panic(st)
    ELSE [st EXCEPT !.cursor = st.cursor + next_cluster_len(st)]

\* Event::Key(Key::Backspace) if self.cursor > 0
key_backspace(st) ==
    IF ~slice_ok(st.content, 0, st.cursor) THEN Panic(st)
    ELSE LET n == prev_cluster_len(st)
         IN  remove([st EXCEPT !.cursor = st.cursor - n], n)

\* Event::Key(Key::Del) if self.cursor < self.content.len()
key_del(st) ==
    IF ~slice_ok(st.content, st.cursor, len(st.content)) THEN Panic(st)
    ELSE remove(st, next_cluster_len(st))

\* usize subtraction a - b as a build without overflow checks computes it
usize_sub(a, b) == IF a >= b THEN a - b ELSE a - b + UsizeModulus

\* on_event, "Keep cursor in [offset, offset+last_length] by changing offset"
keep_cursor_visible(st, L) ==
    IF st.cursor < st.offset THEN [st EXCEPT !.offset = st.cursor]
    ELSE IF ~slice_ok(st.content, st.cursor, len(st.content)) THEN Panic(st)
    ELSE LET rest == slice(st.content, st.cursor, len(st.content))
             c_len == IF rest = <<>> THEN 1 ELSE width(first_grapheme(rest))
             available == usize_sub(L, c_len)
         IN  IF ~slice_ok(st.content, st.offset, st.cursor) THEN Panic(st)
             ELSE LET suffix_length ==
                          simple_suffix_length(
                              slice(st.content, st.offset, st.cursor), available)
                  IN  [st EXCEPT !.offset = st.cursor - suffix_length,
                                 !.overflow = L < c_len]

\* a dead-space step that keeps no column for the trailing cursor
fill_dead_space_no_reserve(st, L) ==
    IF ~slice_ok(st.content, st.offset, len(st.content)) THEN Panic(st)
    ELSE IF width(slice(st.content, st.offset, len(st.content))) < L
         THEN [st EXCEPT !.offset =
                   len(st.content) - simple_suffix_length(st.content, L)]
         ELSE st

\* on_event, "If we have too much space"
fill_dead_space(st, L) ==
    IF ~slice_ok(st.content, st.offset, len(st.content)) THEN Panic(st)
    ELSE IF width(slice(st.content, st.offset, len(st.content))) < L
         THEN [st EXCEPT !.offset =
                   len(st.content) - simple_suffix_length(st.content, L - 1)]
         ELSE st

\* on_event, after the match: the scroll window is recomputed
scroll_window(st, L) ==
    LET s1 == keep_cursor_visible(st, L)
    IN  IF s1.panic THEN s1 ELSE fill_dead_space(s1, L)

Keys == {"Home", "End", "Left", "Right", "Backspace", "Del", "Enter", "Tab"}

\* Event::Char(ch) and Event::Key(key); Tab stands for every event the match
\* has no arm for
Events == {[k |-> "Char", ch |-> c] : c \in Chars}
          \cup {[k |-> key, ch |-> "-"] : key \in Keys}

\* a match whose fall-through arm does not return: the event counts as handled
match_event_no_return(st, ev, has_submit) ==
    CASE ev.k = "Char" -> [arm |-> "edit", st |-> insert(st, ev.ch)]
      [] ev.k = "Home" -> [arm |-> "edit", st |-> [st EXCEPT !.cursor = 0]]
      [] ev.k = "End" ->
            [arm |-> "edit", st |-> [st EXCEPT !.cursor = len(st.content)]]
      [] ev.k = "Left" /\ st.cursor > 0 -> [arm |-> "edit", st |-> key_left(st)]
      [] ev.k = "Right" /\ st.cursor < len(st.content) ->
            [arm |-> "edit", st |-> key_right(st)]
      [] ev.k = "Backspace" /\ st.cursor > 0 ->
            [arm |-> "edit", st |-> key_backspace(st)]
      [] ev.k = "Del" /\ st.cursor < len(st.content) ->
            [arm |-> "edit", st |-> key_del(st)]
      [] ev.k = "Enter" /\ has_submit -> [arm |-> "submit", st |-> st]
      [] OTHER -> [arm |-> "edit", st |-> st]

\* a match whose Enter arm does not return: it falls to the scroll window
\* and the edit callback
match_event_enter_falls(st, ev, has_submit) ==
    CASE ev.k = "Char" -> [arm |-> "edit", st |-> insert(st, ev.ch)]
      [] ev.k = "Home" -> [arm |-> "edit", st |-> [st EXCEPT !.cursor = 0]]
      [] ev.k = "End" ->
            [arm |-> "edit", st |-> [st EXCEPT !.cursor = len(st.content)]]
      [] ev.k = "Left" /\ st.cursor > 0 -> [arm |-> "edit", st |-> key_left(st)]
      [] ev.k = "Right" /\ st.cursor < len(st.content) ->
            [arm |-> "edit", st |-> key_right(st)]
      [] ev.k = "Backspace" /\ st.cursor > 0 ->
            [arm |-> "edit", st |-> key_backspace(st)]
      [] ev.k = "Del" /\ st.cursor < len(st.content) ->
            [arm |-> "edit", st |-> key_del(st)]
      [] ev.k = "Enter" /\ has_submit -> [arm |-> "edit", st |-> st]
      [] OTHER -> [arm |-> "ignored", st |-> st]

\* on_event, the match: which arm runs, and the fields after it
match_event(st, ev, has_submit) ==
    CASE ev.k = "Char" -> [arm |-> "edit", st |-> insert(st, ev.ch)]
      [] ev.k = "Home" -> [arm |-> "edit", st |-> [st EXCEPT !.cursor = 0]]
      [] ev.k = "End" ->
            [arm |-> "edit", st |-> [st EXCEPT !.cursor = len(st.content)]]
      [] ev.k = "Left" /\ st.cursor > 0 -> [arm |-> "edit", st |-> key_left(st)]
      [] ev.k = "Right" /\ st.cursor < len(st.content) ->
            [arm |-> "edit", st |-> key_right(st)]
      [] ev.k = "Backspace" /\ st.cursor > 0 ->
            [arm |-> "edit", st |-> key_backspace(st)]
      [] ev.k = "Del" /\ st.cursor < len(st.content) ->
            [arm |-> "edit", st |-> key_del(st)]
      [] ev.k = "Enter" /\ has_submit -> [arm |-> "submit", st |-> st]
      [] OTHER -> [arm |-> "ignored", st |-> st]

NoCb == [kind |-> "none", content |-> <<>>, cursor |-> 0]


\* an on_event that captures the content and the cursor for the edit callback
\* before the match runs
on_event_stale(st, ev, L, has_edit, has_submit) ==
    LET m == match_event(st, ev, has_submit)
    IN  CASE m.arm = "ignored" ->
                [st |-> st, result |-> "Ignored", cb |-> NoCb]
          [] m.arm = "submit" ->
                [st |-> [st EXCEPT !.holders =
                             @ \cup {Handle("submit", st.content)}],
                 result |-> "Consumed",
                 cb |-> [kind |-> "submit", content |-> st.content, cursor |-> 0]]
          [] OTHER ->
                LET s2 == IF m.st.panic THEN m.st ELSE scroll_window(m.st, L)
                IN  IF s2.panic
                    THEN [st |-> s2, result |-> "panic", cb |-> NoCb]
                    ELSE IF has_edit
                    THEN [st |-> [s2 EXCEPT !.holders =
                                    @ \cup {Handle("edit", st.content)}],
                          result |-> "Consumed",
                          cb |-> [kind |-> "edit", content |-> st.content,
                                  cursor |-> st.cursor]]
                    ELSE [st |-> s2, result |-> "Consumed", cb |-> NoCb]

\* EditView::on_event: the fields after the call, the EventResult and the
\* callback it carries
on_event(st, ev, L, has_edit, has_submit) ==
    LET m == match_event(st, ev, has_submit)
    IN  CASE m.arm = "ignored" ->
                [st |-> st, result |-> "Ignored", cb |-> NoCb]
          [] m.arm = "submit" ->
                [st |-> [st EXCEPT !.holders =
                             @ \cup {Handle("submit", st.content)}],
                 result |-> "Consumed",
                 cb |-> [kind |-> "submit", content |-> st.content, cursor |-> 0]]
          [] OTHER ->
                LET s2 == IF m.st.panic THEN m.st ELSE scroll_window(m.st, L)
                IN  IF s2.panic
                    THEN [st |-> s2, result |-> "panic", cb |-> NoCb]
                    ELSE IF has_edit
                    THEN [st |-> [s2 EXCEPT !.holders =
                                    @ \cup {Handle("edit", s2.content)}],
                          result |-> "Consumed",
                          cb |-> [kind |-> "edit", content |-> s2.content,
                                  cursor |-> s2.cursor]]
                    ELSE [st |-> s2, result |-> "Consumed", cb |-> NoCb]

----------------------------------------------------------------------------
(* Drawing.  The output is the sequence of printer calls:                  *)
(*   print((x, 0), text)          [f |-> "print", x, n |-> 1, text]        *)
(*   print_hline((x, 0), n, g)    [f |-> "print_hline", x, n, text |-> g]  *)

print_at(x, text) == [f |-> "print", x |-> x, n |-> 1, text |-> text]

print_hline(x, n, g) == [f |-> "print_hline", x |-> x, n |-> n, text |-> g]

\* make_small_stars: &"****"[..length]
make_small_stars(length) == [i \in 1..length |-> "*"]

RECURSIVE prefix_scan(_, _, _)
\* a scan that compares the running width before it adds the cluster: the
\* first cluster that does not fit is taken too
prefix_scan_late(gs, w, avail) ==
    IF gs = <<>> \/ w > avail THEN 0
    ELSE len(Head(gs)) + prefix_scan(Tail(gs), w + width(Head(gs)), avail)

\* draw: the bytes of the leading clusters taken before the running width
\* first exceeds `avail`
prefix_scan(gs, w, avail) ==
    IF gs = <<>> THEN 0
    ELSE LET w2 == w + width(Head(gs))
         IN  IF w2 > avail THEN 0
             ELSE len(Head(gs)) + prefix_scan(Tail(gs), w2, avail)

\* draw: the text of the slice content[offset..] that is shown
visible_slice(s, off, L) ==
    LET rest == slice(s, off, len(s))
    IN  slice(rest, 0, prefix_scan(graphemes(rest), 0, L))

\* a draw that takes a content exactly as wide as the viewport to fit
draw_text_fits_equal(s, off, L, sec) ==
    LET w == width(s)
    IN  IF w <= L
        THEN << IF sec THEN print_hline(0, w, <<"*">>) ELSE print_at(0, s),
                print_hline(w, L - w, <<"_">>) >>
        ELSE LET shown == visible_slice(s, off, L)
                 w2 == width(shown)
             IN  << IF sec THEN print_hline(0, w2, <<"*">>) ELSE print_at(0, shown) >>
                 \o (IF w2 < L THEN << print_hline(w2, L - w2, <<"_">>) >>
                     ELSE << >>)

\* a draw that prints the text whether or not the view is secret
draw_text_plain(s, off, L, sec) ==
    LET w == width(s)
    IN  IF w < L
        THEN << print_at(0, s), print_hline(w, L - w, <<"_">>) >>
        ELSE LET shown == visible_slice(s, off, L)
                 w2 == width(shown)
             IN  << print_at(0, shown) >>
                 \o (IF w2 < L THEN << print_hline(w2, L - w2, <<"_">>) >>
                     ELSE << >>)

\* draw, the text and the filler (printer.with_effect ...)
draw_text(s, off, L, sec) ==
    LET w == width(s)
    IN  IF w < L
        THEN << IF sec THEN print_hline(0, w, <<"*">>) ELSE print_at(0, s),
                print_hline(w, L - w, <<"_">>) >>
        ELSE LET shown == visible_slice(s, off, L)
                 w2 == width(shown)
             IN  << IF sec THEN print_hline(0, w2, <<"*">>) ELSE print_at(0, shown) >>
                 \o (IF w2 < L THEN << print_hline(w2, L - w2, <<"_">>) >>
                     ELSE << >>)

\* draw, "Now print cursor"
draw_cursor(s, cur, off, sec) ==
    LET c == IF cur = len(s) THEN <<"_">>
             ELSE LET selected == first_grapheme(slice(s, cur, len(s)))
                  IN  IF sec THEN make_small_stars(width(selected)) ELSE selected
    IN  << print_at(width(slice(s, off, cur)), c) >>

\* draw panics: a slice it takes is out of range or off a char boundary
draw_panics(s, cur, off, L, focused) ==
    \/ width(s) >= L /\ ~slice_ok(s, off, len(s))
    \/ focused /\ cur # len(s) /\ ~slice_ok(s, cur, len(s))
    \/ focused /\ ~slice_ok(s, off, cur)

\* EditView::draw with printer.size.x = last_length
draw(s, cur, off, L, sec, focused) ==
    draw_text(s, off, L, sec)
    \o (IF focused THEN draw_cursor(s, cur, off, sec) ELSE << >>)

----------------------------------------------------------------------------
(* The state machine. *)

RECURSIVE StringsUpTo(_)
\* every text of at most n characters
StringsUpTo(n) ==
    IF n = 0 THEN {<< >>}
    ELSE LET shorter == StringsUpTo(n - 1)
         IN  shorter \cup {s \o utf8(c) : s \in shorter, c \in Chars}

\* number of characters of a text
char_count(s) == Cardinality({i \in DOMAIN s : s[i] # Cont})

\* the texts set_content is called with
Contents == StringsUpTo(MaxSet)

NoEvent == [k |-> "-", ch |-> "-"]

Ret(op, ev, result, cb, out) ==
    [op |-> op, event |-> ev, result |-> result, cb |-> cb, out |-> out]

NoTrip == [stage |-> "idle", content |-> << >>, cursor |-> 0, ch |-> "-"]

Self == [content |-> content, cursor |-> cursor, offset |-> offset,
         holders |-> holders, overflow |-> FALSE, panic |-> FALSE]

\* the fields EditView::new() sets, all but last_length
NewFields ==
    /\ content = << >>
    /\ cursor = 0
    /\ offset = 0
    /\ secret = FALSE
    /\ holders = {}
    /\ ret = Ret("new", NoEvent, "-", NoCb, << >>)
    /\ trip = NoTrip
    /\ panicked = FALSE

\* the fields EditView::new() sets
New == NewFields /\ last_length = 0

\* EditView::new()
Init == New /\ on_edit = FALSE /\ on_submit = FALSE

\* EditView::new(), then any of the builder calls .on_edit(..), .on_submit(..)
InitBuilt == New /\ on_edit \in BOOLEAN /\ on_submit \in BOOLEAN

\* EditView::new().on_edit(..).on_submit(..), after the host's first
\* layout(MaxWidth)
InitLaidOut ==
    NewFields /\ last_length = MaxWidth /\ on_edit = TRUE /\ on_submit = TRUE

\* a call that panics: the fields stay as the unwinding found them
Panics(op, ev) ==
    /\ panicked' = TRUE
    /\ ret' = Ret(op, ev, "panic", NoCb, << >>)
    /\ trip' = NoTrip
    /\ UNCHANGED <<content, cursor, offset, last_length, on_edit, on_submit,
                   secret, holders>>

\* EditView::set_content: the view gets a new Rc, the handles keep the old
SetContent(s) ==
    /\ ~panicked
    /\ offset' = 0
    /\ content' = s
    /\ holders' = {IF h.shared THEN Detached(h) ELSE h : h \in holders}
    /\ ret' = Ret("set_content", NoEvent, "-", NoCb, << >>)
    /\ trip' = NoTrip
    /\ UNCHANGED <<cursor, last_length, on_edit, on_submit, secret, panicked>>

\* EditView::get_content: the caller gets a clone of the Rc
GetContent ==
    /\ ~panicked
    /\ holders' = holders \cup {Handle("get", content)}
    /\ ret' = Ret("get_content", NoEvent, "-", NoCb, << >>)
    /\ trip' = NoTrip
    /\ UNCHANGED <<content, cursor, offset, last_length, on_edit, on_submit,
                   secret, panicked>>

\* the host drops a handle: a callback was dispatched, or a caller of
\* get_content let go of its Rc
Release(h) ==
    /\ ~panicked
    /\ h \in holders
    /\ holders' = holders \ {h}
    /\ ret' = Ret("release", NoEvent, "-", NoCb, << >>)
    /\ trip' = NoTrip
    /\ UNCHANGED <<content, cursor, offset, last_length, on_edit, on_submit,
                   secret, panicked>>

\* View::layout
Layout(w) ==
    /\ ~panicked
    /\ last_length' = w
    /\ ret' = Ret("layout", NoEvent, "-", NoCb, << >>)
    /\ trip' = NoTrip
    /\ UNCHANGED <<content, cursor, offset, on_edit, on_submit, secret,
                   holders, panicked>>

\* EditView::set_secret
SetSecret(b) ==
    /\ ~panicked
    /\ secret' = b
    /\ ret' = Ret("set_secret", NoEvent, "-", NoCb, << >>)
    /\ trip' = NoTrip
    /\ UNCHANGED <<content, cursor, offset, last_length, on_edit, on_submit,
                   holders, panicked>>

Focus(focused) == [k |-> "-", ch |-> IF focused THEN "focused" ELSE "-"]

\* View::draw, with a printer as wide as the last layout
Draw(focused) ==
    /\ ~panicked
    /\ IF draw_panics(content, cursor, offset, last_length, focused)
       THEN Panics("draw", Focus(focused))
       ELSE /\ ret' = Ret("draw", Focus(focused), "-", NoCb,
                          draw(content, cursor, offset, last_length, secret, focused))
            /\ trip' = NoTrip
            /\ UNCHANGED <<content, cursor, offset, last_length, on_edit,
                           on_submit, secret, holders, panicked>>

\* View::on_event.  `keep`: the host holds the returned callback for a later
\* dispatch, or runs and drops it before anything else happens.  A usize
\* subtraction below zero panics in a build with overflow checks and wraps in
\* one without: both outcomes are steps.
OnEvent(ev, keep) ==
    /\ ~panicked
    /\ ev.k = "Char" => char_count(content) < MaxLen
    /\ \E r \in {on_event(Self, ev, last_length, on_edit, on_submit)} :
           \/ /\ r.result = "panic" \/ r.st.overflow
              /\ Panics("on_event", ev)
           \/ /\ r.result # "panic"
              /\ content' = r.st.content
              /\ cursor' = r.st.cursor
              /\ offset' = r.st.offset
              /\ holders' = IF keep THEN r.st.holders
                            ELSE r.st.holders \ {Handle(r.cb.kind, r.cb.content)}
              /\ ret' = Ret("on_event", ev, r.result, r.cb, << >>)
              /\ trip' = NoTrip
              /\ UNCHANGED <<last_length, on_edit, on_submit, secret, panicked>>

\* EditView::insert, called by the owner of the view
Insert(ch) ==
    /\ ~panicked
    /\ char_count(content) < MaxLen
    /\ \E st \in {insert(Self, ch)} :
           IF st.panic
           THEN /\ panicked' = TRUE
                /\ ret' = Ret("insert", [k |-> "-", ch |-> ch], "panic", NoCb,
                              << >>)
                /\ trip' = [stage |-> "insert_panicked", content |-> content,
                            cursor |-> cursor, ch |-> ch]
                /\ UNCHANGED <<content, cursor, offset, last_length, on_edit,
                               on_submit, secret, holders>>
           ELSE /\ content' = st.content
                /\ cursor' = st.cursor
                /\ holders' = st.holders
                /\ ret' = Ret("insert", [k |-> "-", ch |-> ch], "-", NoCb, << >>)
                /\ trip' = [stage |-> "inserted", content |-> content,
                            cursor |-> cursor, ch |-> ch]
                /\ UNCHANGED <<offset, last_length, on_edit, on_submit, secret,
                               panicked>>

\* where a call of remove(n) takes a caller that is undoing insert(ch)
Undone(n, stage) ==
    IF trip.stage = "inserted" /\ n = len_utf8(trip.ch)
    THEN [trip EXCEPT !.stage = stage]
    ELSE NoTrip

\* EditView::remove, called by the owner of the view
Remove(n) ==
    /\ ~panicked
    /\ \E st \in {remove(Self, n)} :
           /\ content' = st.content
           /\ holders' = st.holders
           /\ panicked' = st.panic
           /\ ret' = Ret("remove", NoEvent, IF st.panic THEN "panic" ELSE "-",
                         NoCb, << >>)
           /\ trip' = Undone(n, "removed")
           /\ UNCHANGED <<cursor, offset, last_length, on_edit, on_submit, secret>>

\* self.cursor -= len; self.remove(len): the removal of the Backspace arm,
\* for a length the caller gives.  A cursor below `n` overflows the
\* subtraction: a panic there, or a wrapped cursor that remove panics on
RemoveBefore(n) ==
    /\ ~panicked
    /\ \E st \in {IF cursor < n THEN Panic(Self)
                  ELSE remove([Self EXCEPT !.cursor = cursor - n], n)} :
           /\ content' = st.content
           /\ cursor' = st.cursor
           /\ holders' = st.holders
           /\ panicked' = st.panic
           /\ ret' = Ret("remove", NoEvent, IF st.panic THEN "panic" ELSE "-",
                         NoCb, << >>)
           /\ trip' = Undone(n, "removed_before")
           /\ UNCHANGED <<offset, last_length, on_edit, on_submit, secret>>


\* a view without handlers: contents set, layouts, draws and events
Next ==
    \/ \E s \in Contents : SetContent(s)
    \/ \E w \in 0..MaxWidth : Layout(w)
    \/ \E focused \in BOOLEAN : Draw(focused)
    \/ \E ev \in Events : OnEvent(ev, FALSE)

Spec == Init /\ [][Next]_vars

\* keyboard input alone, from the empty buffer, in a view that is laid out
NextKeys ==
    \/ \E w \in 0..MaxWidth : Layout(w)
    \/ \E ev \in Events : OnEvent(ev, FALSE)

SpecKeys == Init /\ [][NextKeys]_vars

\* a view built with handlers, whose host runs each callback as soon as the
\* event that made it returns
NextNotify ==
    \/ \E s \in Contents : SetContent(s)
    \/ \E w \in 0..MaxWidth : Layout(w)
    \/ \E ev \in Events : OnEvent(ev, FALSE)

SpecNotify == InitBuilt /\ [][NextNotify]_vars

\* handles on the text that outlive the call that made them
NextRc ==
    \/ \E s \in Contents : SetContent(s)
    \/ GetContent
    \/ \E h \in holders : Release(h)
    \/ \E ev \in Events, keep \in BOOLEAN : OnEvent(ev, keep)

SpecRc == InitLaidOut /\ [][NextRc]_vars

\* the owner of the view edits the buffer through insert and remove, between
\* events
NextBuffer ==
    \/ \E s \in Contents : SetContent(s)
    \/ \E w \in 0..MaxWidth : Layout(w)
    \/ \E ev \in Events : OnEvent(ev, FALSE)
    \/ \E ch \in Chars : Insert(ch)
    \/ \E ch \in Chars : Remove(len_utf8(ch))
    \/ \E ch \in Chars : RemoveBefore(len_utf8(ch))

SpecBuffer == Init /\ [][NextBuffer]_vars

\* the two cursor moves, and each one's way back
Moves == {[k |-> key, ch |-> "-"] : key \in {"Left", "Right"}}

Opposite(key) == IF key = "Left" THEN "Right" ELSE "Left"

\* where a move that returned takes a user who is going there and back: a
\* move right after the opposite move is the way back, any other move that
\* was consumed starts a trip from the cursor it found
MovedFrom(ev, result) ==
    IF trip.stage = "moved" /\ trip.ch = Opposite(ev.k)
    THEN [trip EXCEPT !.stage = "returned"]
    ELSE IF result = "Consumed"
    THEN [stage |-> "moved", content |-> content, cursor |-> cursor,
          ch |-> ev.k]
    ELSE NoTrip

\* View::on_event for Key::Left and Key::Right, followed through a move and
\* the move back
Move(ev) ==
    /\ ~panicked
    /\ ev \in Moves
    /\ \E r \in {on_event(Self, ev, last_length, on_edit, on_submit)} :
           \/ /\ r.result = "panic" \/ r.st.overflow
              /\ Panics("on_event", ev)
           \/ /\ r.result # "panic"
              /\ content' = r.st.content
              /\ cursor' = r.st.cursor
              /\ offset' = r.st.offset
              /\ holders' = r.st.holders \ {Handle(r.cb.kind, r.cb.content)}
              /\ ret' = Ret("on_event", ev, r.result, r.cb, << >>)
              /\ trip' = MovedFrom(ev, r.result)
              /\ UNCHANGED <<last_length, on_edit, on_submit, secret, panicked>>

\* keyboard input from the empty buffer, with the cursor moves followed
NextMoves ==
    \/ \E w \in 0..MaxWidth : Layout(w)
    \/ \E ev \in Events \ Moves : OnEvent(ev, FALSE)
    \/ \E ev \in Moves : Move(ev)

SpecMoves == Init /\ [][NextMoves]_vars

\* a view whose owner switches the secret mode, typed into and drawn
NextSecret ==
    \/ \E b \in BOOLEAN : SetSecret(b)
    \/ \E w \in 0..MaxWidth : Layout(w)
    \/ \E focused \in BOOLEAN : Draw(focused)
    \/ \E ev \in Events : OnEvent(ev, FALSE)

SpecSecret == Init /\ [][NextSecret]_vars

----------------------------------------------------------------------------
(* The claims. *)

\* an event was handled by an arm that falls to the scroll window
Consumed ==
    /\ ret.op = "on_event"
    /\ ret.result = "Consumed"
    /\ ret.cb.kind # "submit"

\* display width of the cluster under the cursor, 1 at the end of the text
c_width ==
    IF cursor >= len(content) THEN 1
    ELSE width(first_grapheme(slice(content, cursor, len(content))))

\* the cursor's glyph, drawn from offset `o`, lies inside a viewport of w columns
GlyphInside(o, w) ==
    /\ o <= cursor
    /\ width(slice(content, o, cursor)) + c_width <= w

\* display width of what a viewport of last_length columns shows from offset `o`
ShownWidth(o) == width(visible_slice(content, o, last_length))

\* C1: the cursor never exceeds the byte length of the content, also right
\* after set_content has replaced the text by a shorter one
C1_CursorWithinContent == cursor <= len(content)

\* C2: from the empty buffer, after every Char, Home, End, Left, Right,
\* Backspace and Del event the cursor is a grapheme-cluster boundary of the
\* content
C2_CursorOnBoundary == is_grapheme_boundary(content, cursor)

\* C3: after any operation offset <= cursor, and offset is a grapheme-cluster
\* boundary of the content
C3_OffsetBeforeCursor ==
    offset <= cursor /\ is_grapheme_boundary(content, offset)

\* C4: after every consumed event that is not a submit, the cursor's glyph
\* lies inside the viewport: width(content[offset..cursor]) + c_width <= W
C4_GlyphInViewport ==
    (Consumed /\ ~panicked) => GlyphInside(offset, last_length)

\* C5: after a consumed event that is not a submit, with a content at least
\* as wide as the viewport and the cursor not at the end of the content, no
\* column is left blank although an offset further left would show more of
\* the content and keep the cursor's glyph inside the viewport
C5_NoAvoidableDeadSpace ==
    (/\ Consumed /\ ~panicked
     /\ width(content) >= last_length
     /\ cursor < len(content)
     /\ ShownWidth(offset) < last_length)
    => ~ \E o \in 0..(offset - 1) :
             /\ is_grapheme_boundary(content, o)
             /\ GlyphInside(o, last_length)
             /\ ShownWidth(o) > ShownWidth(offset)

\* C6: a layout with a new width leaves, for the next draw, an offset with
\* the cursor's glyph inside the new viewport (when it was inside the old one
\* and the new one is wide enough for the glyph)
C6_LayoutKeepsGlyphInside ==
    [][(/\ ret'.op = "layout"
        /\ last_length' # last_length
        /\ GlyphInside(offset, last_length)
        /\ c_width <= last_length')
       => GlyphInside(offset', last_length')]_vars

C8_SnapshotIsolation ==
    \A h \in holders : h.shared => h.taken = content

\* an edit has just moved the view off an allocation that a handle kept, and
\* a handle taken after the edit shares the new text
C8_Witness ==
    /\ ret.op = "on_event"
    /\ ret.cb.kind = "edit"
    /\ ret.event.k \in {"Char", "Backspace", "Del"}
    /\ \E h \in holders : ~h.shared
    /\ \E h \in holders : h.shared /\ h.taken # << >>

\* the events of C9, in the state the event arrives in
BoundaryCase(ev) ==
    \/ ev.k \in {"Left", "Backspace"} /\ cursor = 0
    \/ ev.k \in {"Right", "Del"} /\ cursor = len(content)
    \/ ev.k = "Enter" /\ ~on_submit
    \/ ev.k = "Tab"

\* C9: Left or Backspace at cursor 0, Right or Del at the end of the content,
\* Enter without a submit handler and an unrecognized event are Ignored,
\* carry no callback and leave content, cursor and offset as they were
C9_BoundaryIgnored ==
    [][(ret'.op = "on_event" /\ BoundaryCase(ret'.event))
       => /\ ret'.result = "Ignored"
          /\ ret'.cb = NoCb
          /\ UNCHANGED <<content, cursor, offset>>]_vars

\* Backspace on the empty content of a view with both handlers was Ignored
C9_Witness ==
    /\ ret.op = "on_event"
    /\ ret.event.k = "Backspace"
    /\ ret.result = "Ignored"
    /\ content = << >>
    /\ on_edit /\ on_submit

\* C10: with a submit handler, Enter is Consumed with one callback, the
\* submit callback carrying the whole content, and content, cursor and offset
\* stay as they were
C10_EnterSubmits ==
    [][(ret'.op = "on_event" /\ ret'.event.k = "Enter" /\ on_submit)
       => /\ ret'.result = "Consumed"
          /\ ret'.cb = [kind |-> "submit", content |-> content, cursor |-> 0]
          /\ UNCHANGED <<content, cursor, offset>>]_vars

\* Enter was submitted in a view with an edit handler too, with a content and
\* in a state where the scroll window would have moved the offset
C10_Witness ==
    /\ ret.op = "on_event"
    /\ ret.event.k = "Enter"
    /\ ret.cb.kind = "submit"
    /\ ret.cb.content = content
    /\ content # << >>
    /\ on_edit
    /\ scroll_window(Self, last_length).offset # offset

\* C11: a consumed event that is not a submit carries, with an edit handler,
\* one callback, the edit callback with the content and the cursor the event
\* left, and without an edit handler no callback; Char, Home and End are
\* consumed whenever they return
C11_MutateThenNotify ==
    [][(ret'.op = "on_event" /\ ret'.result # "panic")
       => /\ ret'.event.k \in {"Char", "Home", "End"} => ret'.result = "Consumed"
          /\ (ret'.result = "Consumed" /\ ret'.cb.kind # "submit")
             => ret'.cb = IF on_edit
                          THEN [kind |-> "edit", content |-> content',
                                cursor |-> cursor']
                          ELSE NoCb]_vars

\* a Char typed in the middle of a text was notified with the new text and
\* the cursor after the character
C11_Witness ==
    /\ ret.op = "on_event"
    /\ ret.event.k = "Char"
    /\ ret.cb.kind = "edit"
    /\ ret.cb.content = content
    /\ ret.cb.cursor = cursor
    /\ 0 < cursor /\ cursor < len(content)
    /\ on_submit

\* the display widths of the clusters of a text, in order
ClusterWidths(s) ==
    LET gs == graphemes(s) IN [i \in 1..Len(gs) |-> width(gs[i])]

\* the texts a drawn content is compared with
Others == StringsUpTo(MaxLen + 1)

WidthsOf == [s \in Others |-> ClusterWidths(s)]

\* a secret draw that returned, and whether it was focused
SecretDraw == ret.op = "draw" /\ ret.result # "panic" /\ secret

Focused == ret.event = Focus(TRUE)

\* the texts with the cluster widths of the drawn content, of which the cursor
\* and the offset are cluster boundaries as they are of the drawn content
Twins ==
    IF is_grapheme_boundary(content, cursor) /\ is_grapheme_boundary(content, offset)
    THEN UNION {{s2 \in {s \in Others : WidthsOf[s] = cw} :
                    /\ is_grapheme_boundary(s2, cursor)
                    /\ is_grapheme_boundary(s2, offset)}
                : cw \in {ClusterWidths(content)}}
    ELSE {}

\* number of clusters of s before the cluster boundary b
ClustersBefore(s, b) == Len(graphemes(slice(s, 0, b)))

\* the cursor and the offset have as many clusters before them in s2 as in
\* the drawn content
SamePlace(s2) ==
    /\ ClustersBefore(s2, cursor) = ClustersBefore(content, cursor)
    /\ ClustersBefore(s2, offset) = ClustersBefore(content, offset)

\* every printer call of a draw prints '*'s or the one-column '_'
AllMasked(out) ==
    \A i \in DOMAIN out :
        \/ out[i].text = <<"_">>
        \/ \A j \in DOMAIN out[i].text : out[i].text[j] = "*"

\* C12, as stated: a secret draw emits what it emits for any other content
\* with the same cluster widths at the same byte cursor and offset, and it
\* prints only '*' and '_'
C12_SecretDraw ==
    SecretDraw
    => /\ \A s2 \in Twins :
              ~draw_panics(s2, cursor, offset, last_length, Focused)
              => draw(s2, cursor, offset, last_length, TRUE, Focused) = ret.out
       /\ AllMasked(ret.out)

\* C12, corrected: a secret draw emits what it emits for any other content
\* with the same cluster widths whose cursor and offset have the same number
\* of clusters before them, and it prints only '*' and '_'
C12_SecretDrawSamePlace ==
    SecretDraw
    => /\ \A s2 \in Twins :
              SamePlace(s2)
              => /\ ~draw_panics(s2, cursor, offset, last_length, Focused)
                 /\ draw(s2, cursor, offset, last_length, TRUE, Focused) = ret.out
       /\ AllMasked(ret.out)

\* a focused secret draw of a scrolled text with a wide cluster under the
\* cursor, which another text shares its widths and places with
C12_Witness ==
    /\ SecretDraw /\ Focused
    /\ width(content) >= last_length
    /\ offset > 0 /\ cursor < len(content)
    /\ c_width = 2
    /\ \E s2 \in Twins : s2 # content /\ SamePlace(s2)

\* a draw of a view that is not secret returned
PlainDraw == ret.op = "draw" /\ ret.result # "panic" /\ ~secret

\* the filler after w columns of text
Filler(w) == print_hline(w, last_length - w, <<"_">>)

\* `shown` is the longest prefix of `rest` that ends on a cluster boundary of
\* `rest` and is at most last_length columns wide
LongestFittingPrefix(shown, rest) ==
    \E n \in 0..Len(rest) :
        /\ shown = SubSeq(rest, 1, n)
        /\ is_grapheme_boundary(rest, n)
        /\ width(shown) <= last_length
        /\ \A k \in (n + 1)..Len(rest) :
               is_grapheme_boundary(rest, k)
               => width(SubSeq(rest, 1, k)) > last_length

\* C13, as stated: a content whose width is at most the viewport width, the
\* equal width included, is drawn whole from byte 0 at column 0, and the
\* columns left are filled
C13_FitsIncludingEqual ==
    (PlainDraw /\ width(content) <= last_length)
    => /\ ret.out[1] = print_at(0, content)
       /\ width(content) < last_length => ret.out[2] = Filler(width(content))

\* C13, corrected: a content narrower than the viewport is drawn whole from
\* byte 0 at column 0 and the columns left are filled; a content as wide as
\* the viewport or wider is drawn as the longest cluster-aligned prefix of
\* content[offset..] that fits
C13_FitsStrictly ==
    PlainDraw
    => IF width(content) < last_length
       THEN /\ ret.out[1] = print_at(0, content)
            /\ ret.out[2] = Filler(width(content))
       ELSE /\ ret.out[1].f = "print" /\ ret.out[1].x = 0
            /\ LongestFittingPrefix(ret.out[1].text,
                                    slice(content, offset, len(content)))

\* a content exactly as wide as the viewport was drawn from an offset that is
\* not 0
C13_Witness ==
    /\ PlainDraw
    /\ width(content) = last_length
    /\ offset > 0
    /\ ret.out[1].text # content
    /\ ret.out[1].text # << >>

\* a text of single-column characters
SingleColumns(s) == \A i \in DOMAIN s : s[i] = "a"

\* the cursor was just moved to the end of a text of single-column characters
\* at least as wide as the viewport, by End or by typing
AtEndOfWideText ==
    /\ Consumed /\ ~panicked
    /\ ret.event.k \in {"End", "Char"}
    /\ cursor = len(content)
    /\ SingleColumns(content)
    /\ width(content) >= last_length
    /\ last_length >= 1

\* C14: with the cursor moved to the end of a text of single-column
\* characters at least as wide as the viewport, the viewport shows the last
\* W - 1 columns of the text, up to its end, and the trailing cursor marker is
\* drawn right after them, inside the viewport
C14_EndShowsTail ==
    AtEndOfWideText
    => /\ offset = len(content) - (last_length - 1)
       /\ visible_slice(content, offset, last_length)
              = slice(content, offset, len(content))
       /\ ShownWidth(offset) \in {last_length - 1, last_length}
       /\ draw_cursor(content, cursor, offset, FALSE)
              = << print_at(ShownWidth(offset), <<"_">>) >>
       /\ ShownWidth(offset) < last_length

\* End moved the cursor to the end of a text wider than a viewport of two
\* columns or more
C14_Witness ==
    /\ AtEndOfWideText
    /\ ret.event.k = "End"
    /\ last_length >= 2
    /\ width(content) > last_length

\* the text a plain draw printed starts at this byte of the content
DrawnFrom == IF width(content) < last_length THEN 0 ELSE offset

\* C15: in a viewport of 3 columns, a wide character typed between two
\* single-column characters leaves an offset at or before the wide cluster,
\* with the cluster's last column inside the viewport and the cluster inside
\* the visible slice; and the text a draw prints ends on a cluster boundary
\* of the content and is at most as wide as the viewport
C15_WideClusterShownWhole ==
    /\ [][(/\ last_length = 3
           /\ content = <<"a", "a">>
           /\ cursor = 1
           /\ ret'.op = "on_event"
           /\ ret'.event = [k |-> "Char", ch |-> "W"])
          => /\ ret'.result = "Consumed"
             /\ content' = <<"a">> \o utf8("W") \o <<"a">>
             /\ offset' <= 1
             /\ width(slice(content', offset', 1)) + char_width("W") <= 3
             /\ offset' + Len(visible_slice(content', offset', 3))
                    >= 1 + len_utf8("W")]_vars
    /\ [](PlainDraw
          => /\ is_grapheme_boundary(content,
                                     DrawnFrom + Len(ret.out[1].text))
             /\ width(ret.out[1].text) <= last_length)

\* the wide character was typed between the two characters in a viewport of
\* 3 columns, and the viewport scrolled by one column to show it whole
C15_Witness ==
    /\ ret.op = "on_event"
    /\ ret.event = [k |-> "Char", ch |-> "W"]
    /\ ret.result = "Consumed"
    /\ last_length = 3
    /\ content = <<"a">> \o utf8("W") \o <<"a">>
    /\ cursor = 1 + len_utf8("W")
    /\ offset = 1
    /\ visible_slice(content, offset, last_length) = utf8("W") \o <<"a">>

\* handling event ev in this state computes last_length - c_len with
\* c_len > last_length.  (last_length - 1 is computed only after
\* width(content[offset..]) < last_length was found, so with last_length >= 1.)
Underflows(ev) ==
    on_event(Self, ev, last_length, on_edit, on_submit).st.overflow

\* C16: no event is handled with an unsigned subtraction below zero in the
\* scroll window
C16_NoUnderflow ==
    [][ret'.op = "on_event" => ~Underflows(ret'.event)]_vars

\* a focused draw returned
FocusedDraw == ret.op = "draw" /\ ret.result # "panic" /\ Focused

\* C17: a focused draw prints the cursor at the column where it printed the
\* text before the cursor: the width of the text between the first byte it
\* drew and the cursor
C17_CursorOnItsCluster ==
    FocusedDraw
    => ret.out[Len(ret.out)].x = width(slice(content, DrawnFrom, cursor))

\* C18: Left and then Right, or Right and then Left, bring the cursor back to
\* where it was and leave the content as it was
C18_LeftRightInverse ==
    trip.stage = "returned"
    => cursor = trip.cursor /\ content = trip.content

\* bytes a..b of s are one whole cluster of s
WholeCluster(s, a, b) ==
    /\ a < b
    /\ is_grapheme_boundary(s, a)
    /\ is_grapheme_boundary(s, b)
    /\ \A k \in (a + 1)..(b - 1) : ~is_grapheme_boundary(s, k)

\* event `key` was consumed in this step
Handled(key) ==
    ret'.op = "on_event" /\ ret'.event.k = key /\ ret'.result = "Consumed"

\* C19: a consumed Backspace with cursor > 0 removes the one whole cluster
\* that ends at the cursor and moves the cursor to its start; a consumed Del
\* with cursor < len(content) removes the one whole cluster that starts at
\* the cursor and leaves the cursor
C19_RemovesOneCluster ==
    [][/\ (Handled("Backspace") /\ cursor > 0)
          => \E n \in 1..cursor :
                 /\ WholeCluster(content, cursor - n, cursor)
                 /\ content' = slice(content, 0, cursor - n)
                                   \o slice(content, cursor, len(content))
                 /\ cursor' = cursor - n
       /\ (Handled("Del") /\ cursor < len(content))
          => \E m \in 1..(len(content) - cursor) :
                 /\ WholeCluster(content, cursor, cursor + m)
                 /\ content' = slice(content, 0, cursor)
                                   \o slice(content, cursor + m, len(content))
                 /\ cursor' = cursor]_vars

====
